---- MODULE Spec2Model ----
(***************************************************************************)
(* Model of gocryptfs' reverse-mode overlay (fusefrontend_reverse/rfs.go)  *)
(* and of the command line front end (main: loadConfig, changePassword,    *)
(* the mount path).                                                        *)
(*                                                                         *)
(* Paths are sequences of path components.  The underlying plaintext tree  *)
(* is a function from the paths that exist to their attributes.            *)
(***************************************************************************)
EXTENDS Integers, Sequences, FiniteSets, TLC

VARIABLES
    tree,       \* the underlying plaintext tree: [existing paths -> Attr]
    tree0,      \* the tree as it was when the filesystem was mounted
    reqs,       \* the requests in flight, one record per worker slot
    pc,         \* position of the command line process (main)
    args,       \* its parsed arguments (argContainer)
    conf,       \* the config file on disk
    loc,        \* main's locals: masterkey, the loaded confFile, passwords
    exitCode,   \* the exit code of the process, -1 while it runs
    events,     \* milestones of the current run, in order
    hist        \* bookkeeping across runs: creation key, latest password

vars == <<tree, tree0, reqs, pc, args, conf, loc, exitCode, events, hist>>
fsVars == <<tree, tree0, reqs>>
mainVars == <<pc, args, conf, loc, exitCode, events, hist>>

(***************************************************************************)
(* Bounds                                                                  *)
(***************************************************************************)
MaxInFlight == 2
MaxRuns == 3

(***************************************************************************)
(* Well-known names and constants                                          *)
(***************************************************************************)
DirIVFilename == "gocryptfs.diriv"
ConfDefaultName == "gocryptfs.conf"
DirIVLen == 16

S_IFDIR == 16384
S_IFREG == 32768
S_IFIFO == 4096
S_IXUSR == 64
\* syscall.S_IFREG | 0400
DirIVMode == 33024

O_RDONLY == 0
O_WRONLY == 1
O_RDWR == 2
O_CREAT == 64
O_EXCL == 128
O_TRUNC == 512
O_APPEND == 1024

\* Content layout parameters of ContentCodec
DefaultBS == 4096
BlockOverhead == 32
HeaderLen == 18

(***************************************************************************)
(* Attributes                                                              *)
(***************************************************************************)
MkAttr(mode, size, nlink, ino) ==
    [Mode |-> mode, Size |-> size, Nlink |-> nlink, Ino |-> ino]

\* a.Mode & syscall.S_IFMT, the file type bits
FileType(a) == ((a.Mode \div 4096) % 16) * 4096
IsDir(a) == FileType(a) = S_IFDIR
IsRegular(a) == FileType(a) = S_IFREG
\* a.Mode & syscall.S_IXUSR != 0
HasXUSR(a) == (a.Mode \div S_IXUSR) % 2 = 1
\* the owner's permission bits, rwx as 4, 2, 1
OwnerBits(a) == (a.Mode \div S_IXUSR) % 8
BitsWithin(want, have) ==
    \A b \in {1, 2, 4} : ((want \div b) % 2 = 1) => ((have \div b) % 2 = 1)

(***************************************************************************)
(* ContentCodec.PlainToCipherSize                                          *)
(***************************************************************************)
PlainSizeToCipherSize(n) ==
    HeaderLen + ((n + DefaultBS - 1) \div DefaultBS) * (DefaultBS + BlockOverhead)

(***************************************************************************)
(* NameCodec and path translation                                          *)
(***************************************************************************)
\* A name whose encryption fails: the error return of encryptPath
BadName == "bad"

PlainNames == {"d", "f", "n", "p", "new", BadName, ConfDefaultName, DirIVFilename}

\* Deterministic, injective, and never a plaintext or well-known name.
EncryptName(n) == n \o ".enc"

NameUniverse == PlainNames \cup {EncryptName(n) : n \in PlainNames}

\* [err, name]: fails on anything that is not an encrypted name
DecryptName(c) ==
    IF \E n \in NameUniverse : EncryptName(n) = c
    THEN [err |-> "OK", name |-> CHOOSE n \in NameUniverse : EncryptName(n) = c]
    ELSE [err |-> "FormatError", name |-> ""]

\* [err, path]: fails when a component cannot be encrypted
encryptPath(relPath) ==
    IF \E i \in 1..Len(relPath) : relPath[i] = BadName
    THEN [err |-> "IOError", path |-> <<>>]
    ELSE [err |-> "OK", path |-> [i \in 1..Len(relPath) |-> EncryptName(relPath[i])]]

decryptPath(relPath) ==
    IF \E i \in 1..Len(relPath) : DecryptName(relPath[i]).err # "OK"
    THEN [err |-> "FormatError", path |-> <<>>]
    ELSE [err |-> "OK", path |-> [i \in 1..Len(relPath) |-> DecryptName(relPath[i]).name]]

\* path.Dir, with "." mapped to "" (the root)
PathDir(relPath) == SubSeq(relPath, 1, Len(relPath) - 1)

\* strings.HasSuffix on one path component
HasSuffix(s, suffix) ==
    /\ Len(s) >= Len(suffix)
    /\ SubSeq(s, Len(s) - Len(suffix) + 1, Len(s)) = suffix

\* relPath == DirIVFilename || strings.HasSuffix(relPath, DirIVFilename):
\* the suffix holds no "/", so it is a suffix of the last component
IsDirIVPath(relPath) ==
    Len(relPath) > 0 /\ HasSuffix(relPath[Len(relPath)], DirIVFilename)

\* the exclusion policy: the config file at the tree root
isFiltered(relPath) == relPath = <<ConfDefaultName>>

(***************************************************************************)
(* The underlying filesystem (loopbackfs and the syscalls rfs.go issues)   *)
(***************************************************************************)
Min(S) == CHOOSE x \in S : \A y \in S : x <= y

\* The error of walking the proper prefixes of p, "OK" when the walk succeeds.
WalkErr(t, p) ==
    LET bad == {k \in 0..(Len(p) - 1) :
                   LET q == SubSeq(p, 1, k)
                   IN  q \notin DOMAIN t \/ ~IsDir(t[q]) \/ ~HasXUSR(t[q])}
    IN  IF bad = {} THEN "OK"
        ELSE LET q == SubSeq(p, 1, Min(bad))
             IN  IF q \notin DOMAIN t THEN "ENOENT"
                 ELSE IF ~IsDir(t[q]) THEN "ENOTDIR"
                 ELSE "EACCES"

\* loopbackfs.GetAttr: lstat of the path. attr is <<>> (nil) or <<a>>.
LoopbackGetAttr(t, p) ==
    IF WalkErr(t, p) # "OK" THEN [status |-> WalkErr(t, p), attr |-> <<>>]
    ELSE IF p \notin DOMAIN t THEN [status |-> "ENOENT", attr |-> <<>>]
    ELSE [status |-> "OK", attr |-> <<t[p]>>]

\* syscall.Access(path, mode)
SyscallAccess(t, p, mode) ==
    IF WalkErr(t, p) # "OK" THEN WalkErr(t, p)
    ELSE IF p \notin DOMAIN t THEN "ENOENT"
    ELSE IF ~BitsWithin(mode, OwnerBits(t[p])) THEN "EACCES"
    ELSE "OK"

IsFifo(a) == FileType(a) = S_IFIFO

\* The names of the entries of directory p
Children(t, p) == {n \in PlainNames : Append(p, n) \in DOMAIN t}

\* Every order in which the host can hand out the names of S
Orders(S) ==
    {s \in [1..Cardinality(S) -> S] :
        \A i, j \in 1..Cardinality(S) : i # j => s[i] # s[j]}

\* The entries of directory p, name and mode (the lstat of each name), in
\* the order s
ListIn(t, p, s) ==
    [k \in 1..Len(s) |-> [Mode |-> t[Append(p, s[k])].Mode, Name |-> s[k]]]

\* The status of a call that has not returned: it waits in the kernel
Blocked == "BLOCKED"

\* loopbackfs.OpenDir: the set of outcomes of the call.  entries is <<>>
\* together with an error status (nil), or the list of the directory's
\* entries in an order of the host's choosing.  The call opens the path
\* read-only, reads the names from the descriptor and takes each entry's mode
\* from an lstat of the name:
\*  - the open of a fifo waits until some process holds the write end; then
\*    it goes on as for any file that is no directory;
\*  - the open of a file that is no directory succeeds and reading it as a
\*    directory fails; the library answers with an empty list;
\*  - in a directory without search permission the lstat of every name
\*    fails, and the library answers with the entries it had before the
\*    first failure: none.
LoopbackOpenDir(t, p) ==
    LET nil(e) == [status |-> e, isNil |-> TRUE, entries |-> <<>>]
        list(es) == [status |-> "OK", isNil |-> FALSE, entries |-> es]
    IN  IF WalkErr(t, p) # "OK" THEN {nil(WalkErr(t, p))}
        ELSE IF p \notin DOMAIN t THEN {nil("ENOENT")}
        ELSE IF ~BitsWithin(4, OwnerBits(t[p])) THEN {nil("EACCES")}
        ELSE IF IsFifo(t[p]) THEN {nil(Blocked), list(<<>>)}
        ELSE IF ~IsDir(t[p]) THEN {list(<<>>)}
        ELSE IF ~HasXUSR(t[p]) THEN {list(<<>>)}
        ELSE {list(ListIn(t, p, s)) : s \in Orders(Children(t, p))}

FlagSet(flags, bit) == (flags \div bit) % 2 = 1

\* A file created by open(2) with mode 0666 under umask 022.
NewFileAttr == MkAttr(S_IFREG + 420, 0, 1, 99)

\* os.OpenFile(absPath, flags, 0666): the set of outcomes of the call, each
\* the status and the tree it leaves.  O_TRUNC asks for write permission and
\* truncates a regular file whatever the access mode; access mode 3 asks for
\* both permissions; the open of a fifo for reading only or for writing only
\* returns when some process (a handle of this filesystem included) holds
\* the other end, and waits until then.
OsOpenFile(t, p, flags) ==
    LET acc == flags % 4
        wr == acc \in {O_WRONLY, O_RDWR, 3} \/ FlagSet(flags, O_TRUNC)
        rd == acc \in {O_RDONLY, O_RDWR, 3}
        fail(e) == {[status |-> e, tree |-> t]}
    IN  IF WalkErr(t, p) # "OK" THEN fail(WalkErr(t, p))
        ELSE IF p \notin DOMAIN t
             THEN IF ~FlagSet(flags, O_CREAT) THEN fail("ENOENT")
                  ELSE IF ~BitsWithin(2, OwnerBits(t[PathDir(p)])) THEN fail("EACCES")
                  ELSE {[status |-> "OK",
                         tree |-> [q \in DOMAIN t \cup {p} |->
                                      IF q = p THEN NewFileAttr ELSE t[q]]]}
        ELSE IF FlagSet(flags, O_CREAT) /\ FlagSet(flags, O_EXCL) THEN fail("EEXIST")
        ELSE IF IsDir(t[p]) /\ (wr \/ FlagSet(flags, O_CREAT)) THEN fail("EISDIR")
        ELSE IF (rd /\ ~BitsWithin(4, OwnerBits(t[p])))
                \/ (wr /\ ~BitsWithin(2, OwnerBits(t[p]))) THEN fail("EACCES")
        ELSE IF IsFifo(t[p])
             THEN IF acc = 3 THEN fail("EINVAL")
                  ELSE IF acc = O_RDWR THEN {[status |-> "OK", tree |-> t]}
                  ELSE {[status |-> "OK", tree |-> t], [status |-> Blocked, tree |-> t]}
        ELSE IF FlagSet(flags, O_TRUNC) /\ IsRegular(t[p])
             THEN {[status |-> "OK", tree |-> [t EXCEPT ![p].Size = 0]]}
        ELSE {[status |-> "OK", tree |-> t]}

\* NewFile(f, rfs.contentEnc): a handle on the opened underlying file
NewFile(p, flags) == [path |-> p, flags |-> flags]

(***************************************************************************)
(* The handlers of reverseFS, each as the part before its one call into    *)
(* the underlying filesystem (Translate) and the part from that call on.   *)
(***************************************************************************)
Failure(st) == [status |-> st, attr |-> <<>>, entries |-> <<>>, file |-> <<>>]
AttrResult(a) == [status |-> "OK", attr |-> <<a>>, entries |-> <<>>, file |-> <<>>]
StatusResult(st) == [status |-> st, attr |-> <<>>, entries |-> <<>>, file |-> <<>>]
FileResult(h) == [status |-> "OK", attr |-> <<>>, entries |-> <<>>, file |-> <<h>>]
ListResult(es) == [status |-> "OK", attr |-> <<>>, entries |-> es, file |-> <<>>]

Stop(st) == [done |-> TRUE, status |-> st, branch |-> "", target |-> <<>>]
Go(branch, target) == [done |-> FALSE, status |-> "OK", branch |-> branch, target |-> target]

\* GetAttr without the isFiltered test
GetAttrTranslate_nofilter(relPath) ==
    IF IsDirIVPath(relPath)
    THEN LET d == decryptPath(PathDir(relPath))
         IN  IF d.err # "OK" THEN Stop(d.err) ELSE Go("diriv", d.path)
    ELSE LET d == decryptPath(relPath)
         IN  IF d.err # "OK" THEN Stop(d.err) ELSE Go("plain", d.path)

\* GetAttr up to the lookup: the diriv test, the filter, the translation
GetAttrTranslate(relPath) ==
    IF IsDirIVPath(relPath)
    THEN LET d == decryptPath(PathDir(relPath))
         IN  IF d.err # "OK" THEN Stop(d.err) ELSE Go("diriv", d.path)
    ELSE IF isFiltered(relPath) THEN Stop("EPERM")
    ELSE LET d == decryptPath(relPath)
         IN  IF d.err # "OK" THEN Stop(d.err) ELSE Go("plain", d.path)

\* GetAttr of gocryptfs.diriv without the execute-permission test
GetAttrDirIV_noexec(t, dir) ==
    LET l == LoopbackGetAttr(t, dir)
    IN  IF l.status # "OK" THEN Failure(l.status)
        ELSE IF ~IsDir(l.attr[1]) THEN Failure("ENOTDIR")
        ELSE AttrResult([l.attr[1] EXCEPT !.Mode = DirIVMode,
                                          !.Size = DirIVLen,
                                          !.Nlink = 1])

\* GetAttr of gocryptfs.diriv, from the lookup of the parent directory on
GetAttrDirIV(t, dir) ==
    LET l == LoopbackGetAttr(t, dir)
    IN  IF l.status # "OK" THEN Failure(l.status)
        ELSE IF ~IsDir(l.attr[1]) THEN Failure("ENOTDIR")
        ELSE IF ~HasXUSR(l.attr[1]) THEN Failure("EPERM")
        ELSE AttrResult([l.attr[1] EXCEPT !.Mode = DirIVMode,
                                          !.Size = DirIVLen,
                                          !.Nlink = 1])

\* GetAttr of an ordinary entry that forwards the plaintext size
GetAttrPlain_rawsize(t, p) ==
    LET l == LoopbackGetAttr(t, p)
    IN  IF l.status # "OK" THEN Failure(l.status) ELSE AttrResult(l.attr[1])

\* GetAttr of an ordinary entry, from the lookup on
GetAttrPlain(t, p) ==
    LET l == LoopbackGetAttr(t, p)
    IN  IF l.status # "OK" THEN Failure(l.status)
        ELSE IF IsRegular(l.attr[1])
             THEN AttrResult([l.attr[1] EXCEPT !.Size = PlainSizeToCipherSize(l.attr[1].Size)])
        ELSE AttrResult(l.attr[1])

GetAttrFinish(t, branch, target) ==
    IF branch = "diriv" THEN GetAttrDirIV(t, target) ELSE GetAttrPlain(t, target)

\* Access up to the syscall
AccessTranslate(relPath) ==
    IF isFiltered(relPath) THEN Stop("EPERM")
    ELSE LET c == encryptPath(relPath)
         IN  IF c.err # "OK" THEN Stop(c.err) ELSE Go("", c.path)

AccessFinish(t, cPath, mode) == StatusResult(SyscallAccess(t, cPath, mode))

\* Open up to os.OpenFile
OpenTranslate(relPath) ==
    IF isFiltered(relPath) THEN Stop("EPERM")
    ELSE LET d == decryptPath(relPath)
         IN  IF d.err # "OK" THEN Stop(d.err) ELSE Go("", d.path)

\* os.OpenFile with the caller's flags, then NewFile: the set of outcomes
\* [result, tree], a call that waits having the status Blocked
OpenFinish(t, absPath, flags) ==
    {IF o.status # "OK" THEN [result |-> Failure(o.status), tree |-> o.tree]
     ELSE [result |-> FileResult(NewFile(absPath, flags)), tree |-> o.tree] :
        o \in OsOpenFile(t, absPath, flags)}

\* OpenDir up to the read of the plaintext directory
OpenDirTranslate(relPath) ==
    LET d == decryptPath(relPath)
    IN  IF d.err # "OK" THEN Stop(d.err) ELSE Go("", d.path)

\* entries[i].Name, err = rfs.encryptPath(entries[i].Name)
EncryptEntry(e) ==
    LET c == encryptPath(<<e.Name>>)
    IN  [err |-> c.err,
         entry |-> IF c.err = "OK" THEN [e EXCEPT !.Name = c.path[1]] ELSE e]

\* Add virtual gocryptfs.diriv
AppendDirIV(entries) ==
    Append(entries, [Mode |-> DirIVMode, Name |-> DirIVFilename])

RECURSIVE EncryptFrom(_, _)
EncryptFrom(entries, i) ==
    IF i > Len(entries) THEN ListResult(AppendDirIV(entries))
    ELSE LET x == EncryptEntry(entries[i])
         IN  IF x.err # "OK" THEN Failure(x.err)
             ELSE EncryptFrom([entries EXCEPT ![i] = x.entry], i + 1)

\* OpenDir from the read of the plaintext directory on: the set of outcomes,
\* a call that waits having the status Blocked
OpenDirFinish(t, target) ==
    {IF l.isNil THEN Failure(l.status) ELSE EncryptFrom(l.entries, 1) :
        l \in LoopbackOpenDir(t, target)}

(***************************************************************************)
(* Each handler run from entry to return on tree t.  Open and OpenDir give *)
(* the set of outcomes: the host chooses the order of a listing, and an    *)
(* open that waits for a peer has not returned (status Blocked).           *)
(***************************************************************************)
GetAttr(t, relPath) ==
    LET e == GetAttrTranslate(relPath)
    IN  IF e.done THEN Failure(e.status) ELSE GetAttrFinish(t, e.branch, e.target)

Access(t, relPath, mode) ==
    LET e == AccessTranslate(relPath)
    IN  IF e.done THEN StatusResult(e.status) ELSE AccessFinish(t, e.target, mode)

Open(t, relPath, flags) ==
    LET e == OpenTranslate(relPath)
    IN  IF e.done THEN {[result |-> Failure(e.status), tree |-> t]}
        ELSE OpenFinish(t, e.target, flags)

OpenDir(t, relPath) ==
    LET e == OpenDirTranslate(relPath)
    IN  IF e.done THEN {Failure(e.status)} ELSE OpenDirFinish(t, e.target)

(***************************************************************************)
(* Requests in flight.  The FUSE layer runs one handler invocation per     *)
(* request on a pool of workers; a handler's variables are its own.        *)
(***************************************************************************)
Slots == 1..MaxInFlight

NoReq ==
    [pc |-> "idle", op |-> "", path |-> <<>>, arg |-> 0, branch |-> "",
     target |-> <<>>, entries |-> <<>>, i |-> 0, result |-> Failure(""),
     seen |-> <<>>]

\* A handler at its entry, after the part that precedes its call into the
\* underlying filesystem.
Entered(op, relPath, arg, e) ==
    IF e.done
    THEN [NoReq EXCEPT !.pc = "done", !.op = op, !.path = relPath, !.arg = arg,
                       !.result = Failure(e.status)]
    ELSE [NoReq EXCEPT !.pc = "io", !.op = op, !.path = relPath, !.arg = arg,
                       !.branch = e.branch, !.target = e.target]

\* The translated path kept in a field shared by all handlers: the last
\* request to enter wins
SharedTarget(r) ==
    LET waiting == {q \in Slots : reqs[q].pc = "io"}
    IN  reqs[CHOOSE q \in waiting : \A q2 \in waiting : q2 <= q].target

\* The handler's local variable holding the translated path
TargetOf(r) == reqs[r].target

Finished(r, res) ==
    [reqs[r] EXCEPT !.pc = "done", !.result = res, !.seen = <<tree>>]

GetAttrEnter(r, paths) ==
    /\ reqs[r].pc = "idle"
    /\ \E relPath \in paths :
          reqs' = [reqs EXCEPT ![r] = Entered("GetAttr", relPath, 0, GetAttrTranslate(relPath))]
    /\ UNCHANGED <<tree, tree0, mainVars>>

GetAttrLookup(r) ==
    /\ reqs[r].pc = "io" /\ reqs[r].op = "GetAttr"
    /\ reqs' = [reqs EXCEPT ![r] = Finished(r, GetAttrFinish(tree, reqs[r].branch, TargetOf(r)))]
    /\ UNCHANGED <<tree, tree0, mainVars>>

AccessEnter(r, paths, modes) ==
    /\ reqs[r].pc = "idle"
    /\ \E relPath \in paths, mode \in modes :
          reqs' = [reqs EXCEPT ![r] = Entered("Access", relPath, mode, AccessTranslate(relPath))]
    /\ UNCHANGED <<tree, tree0, mainVars>>

AccessCheck(r) ==
    /\ reqs[r].pc = "io" /\ reqs[r].op = "Access"
    /\ reqs' = [reqs EXCEPT ![r] = Finished(r, AccessFinish(tree, TargetOf(r), reqs[r].arg))]
    /\ UNCHANGED <<tree, tree0, mainVars>>

OpenEnter(r, paths, flagss) ==
    /\ reqs[r].pc = "idle"
    /\ \E relPath \in paths, flags \in flagss :
          reqs' = [reqs EXCEPT ![r] = Entered("Open", relPath, flags, OpenTranslate(relPath))]
    /\ UNCHANGED <<tree, tree0, mainVars>>

OpenOpenFile(r) ==
    /\ reqs[r].pc = "io" /\ reqs[r].op = "Open"
    /\ \E o \in OpenFinish(tree, TargetOf(r), reqs[r].arg) :
          /\ o.result.status # Blocked
          /\ reqs' = [reqs EXCEPT ![r] = Finished(r, o.result)]
          /\ tree' = o.tree
    /\ UNCHANGED <<tree0, mainVars>>

OpenDirEnter(r, paths) ==
    /\ reqs[r].pc = "idle"
    /\ \E relPath \in paths :
          reqs' = [reqs EXCEPT ![r] = Entered("OpenDir", relPath, 0, OpenDirTranslate(relPath))]
    /\ UNCHANGED <<tree, tree0, mainVars>>

OpenDirRead(r) ==
    /\ reqs[r].pc = "io" /\ reqs[r].op = "OpenDir"
    /\ \E l \in LoopbackOpenDir(tree, TargetOf(r)) :
          /\ l.status # Blocked
          /\ reqs' = [reqs EXCEPT ![r] =
                         IF l.isNil THEN Finished(r, Failure(l.status))
                         ELSE [reqs[r] EXCEPT !.pc = "listed", !.entries = l.entries,
                                              !.i = 1, !.seen = <<tree>>]]
    /\ UNCHANGED <<tree, tree0, mainVars>>

OpenDirEncrypt(r) ==
    /\ reqs[r].pc = "listed" /\ reqs[r].i <= Len(reqs[r].entries)
    /\ LET x == EncryptEntry(reqs[r].entries[reqs[r].i])
       IN  reqs' = [reqs EXCEPT ![r] =
                       IF x.err # "OK"
                       THEN [reqs[r] EXCEPT !.pc = "done", !.result = Failure(x.err)]
                       ELSE [reqs[r] EXCEPT !.entries[reqs[r].i] = x.entry,
                                            !.i = reqs[r].i + 1]]
    /\ UNCHANGED <<tree, tree0, mainVars>>

OpenDirReturn(r) ==
    /\ reqs[r].pc = "listed" /\ reqs[r].i > Len(reqs[r].entries)
    /\ reqs' = [reqs EXCEPT ![r] =
                   [reqs[r] EXCEPT !.pc = "done",
                                   !.result = ListResult(AppendDirIV(reqs[r].entries))]]
    /\ UNCHANGED <<tree, tree0, mainVars>>

\* The reply is sent and the worker is free for the next request.
Reply(r) ==
    /\ reqs[r].pc = "done"
    /\ reqs' = [reqs EXCEPT ![r] = NoReq]
    /\ UNCHANGED <<tree, tree0, mainVars>>

(***************************************************************************)
(* Underlying trees and request inputs                                     *)
(***************************************************************************)
FileSizes == {0, 4096, 10000}

\* root/ d/ d/f d/gocryptfs.diriv n/ (readable, no search permission)
\* p (fifo) and, when withConf, gocryptfs.conf; when nHolds, n/f; when
\* dBad, d/bad
MkTree(fsize, withConf, nHolds, dBad) ==
    LET dom == {<<>>, <<"d">>, <<"d", "f">>, <<"d", DirIVFilename>>, <<"n">>, <<"p">>}
               \cup (IF withConf THEN {<<ConfDefaultName>>} ELSE {})
               \cup (IF nHolds THEN {<<"n", "f">>} ELSE {})
               \cup (IF dBad THEN {<<"d", BadName>>} ELSE {})
    IN  [q \in dom |->
            CASE q = <<>> -> MkAttr(S_IFDIR + 493, 4096, 4, 1)
              [] q = <<"d">> -> MkAttr(S_IFDIR + 493, 4096, 2, 2)
              [] q = <<"d", "f">> -> MkAttr(S_IFREG + 420, fsize, 1, 3)
              [] q = <<"d", DirIVFilename>> -> MkAttr(S_IFREG + 384, 16, 1, 4)
              [] q = <<"n">> -> MkAttr(S_IFDIR + 420, 4096, 2, 5)
              [] q = <<"p">> -> MkAttr(S_IFIFO + 420, 0, 1, 6)
              [] q = <<"n", "f">> -> MkAttr(S_IFREG + 420, 5, 1, 8)
              [] q = <<"d", BadName>> -> MkAttr(S_IFREG + 420, 7, 1, 9)
              [] OTHER -> MkAttr(S_IFREG + 384, 300, 1, 7)]

E(n) == EncryptName(n)

ReqPaths ==
    {<<>>, <<DirIVFilename>>, <<ConfDefaultName>>, <<E(ConfDefaultName)>>,
     <<E("d")>>, <<E("d"), DirIVFilename>>, <<E("d"), E("f")>>,
     <<E("d"), E(DirIVFilename)>>, <<E("d"), E("new")>>,
     <<E("n")>>, <<E("n"), DirIVFilename>>, <<E("n"), E("f")>>,
     <<E("p")>>, <<E("p"), DirIVFilename>>,
     <<E("new")>>, <<E("new"), DirIVFilename>>,
     <<"d">>, <<"d", DirIVFilename>>, <<"d", "f">>, <<BadName>>}

AccessModes == {0, 1, 2, 4}

OpenFlags ==
    {O_RDONLY, O_WRONLY, O_RDWR, 3, O_RDONLY + O_TRUNC, O_RDWR + O_TRUNC,
     O_WRONLY + O_CREAT, O_WRONLY + O_CREAT + O_EXCL, O_WRONLY + O_APPEND}

ConcPaths ==
    {<<DirIVFilename>>, <<E("d")>>, <<E("d"), E("f")>>, <<E("d"), E("new")>>,
     <<BadName>>}
ConcModes == {4}
ConcFlags == {O_RDONLY, O_WRONLY}

MainIdle ==
    /\ pc = "off"
    /\ args = <<>>
    /\ conf = <<>>
    /\ loc = <<>>
    /\ exitCode = -1
    /\ events = <<>>
    /\ hist = <<>>

Init ==
    /\ \E fsize \in FileSizes, withConf \in BOOLEAN, nHolds \in BOOLEAN,
          dBad \in BOOLEAN :
          tree = MkTree(fsize, withConf, nHolds, dBad)
    /\ tree0 = tree
    /\ reqs = [r \in Slots |-> NoReq]
    /\ MainIdle

InitConc ==
    /\ \E dBad \in BOOLEAN : tree = MkTree(10000, TRUE, TRUE, dBad)
    /\ tree0 = tree
    /\ reqs = [r \in Slots |-> NoReq]
    /\ MainIdle

\* One request at a time, over every input
Next ==
    \/ GetAttrEnter(1, ReqPaths)
    \/ GetAttrLookup(1)
    \/ AccessEnter(1, ReqPaths, AccessModes)
    \/ AccessCheck(1)
    \/ OpenEnter(1, ReqPaths, OpenFlags)
    \/ OpenOpenFile(1)
    \/ OpenDirEnter(1, ReqPaths)
    \/ OpenDirRead(1)
    \/ OpenDirEncrypt(1)
    \/ OpenDirReturn(1)
    \/ Reply(1)

\* Requests on every worker, interleaved
NextConc ==
    \E r \in Slots :
        \/ GetAttrEnter(r, ConcPaths)
        \/ GetAttrLookup(r)
        \/ AccessEnter(r, ConcPaths, ConcModes)
        \/ AccessCheck(r)
        \/ OpenEnter(r, ConcPaths, ConcFlags)
        \/ OpenOpenFile(r)
        \/ OpenDirEnter(r, ConcPaths)
        \/ OpenDirRead(r)
        \/ OpenDirEncrypt(r)
        \/ OpenDirReturn(r)
        \/ Reply(r)

(***************************************************************************)
(* The command line process: main, initDir, loadConfig, changePassword     *)
(* and the mount path.                                                     *)
(***************************************************************************)
ERREXIT_USAGE == 1
ERREXIT_MOUNT == 3
ERREXIT_CIPHERDIR == 6
ERREXIT_INIT == 7
ERREXIT_LOADCONF == 8
ERREXIT_PASSWORD == 9
ERREXIT_MOUNTPOINT == 10

Passwords == {"pw1", "pw2"}
Keys == {"k1", "k2"}
Salts == {"s1", "s2"}
\* make([]byte, cryptfs.KEY_LEN)
ZeroKey == "k0"

\* Where -config points: CIPHERDIR/gocryptfs.conf, or a file outside CIPHERDIR
ConfLocs == {"default", "custom"}

NoConf == [exists |-> FALSE, pw |-> "", salt |-> "", key |-> "", corrupt |-> FALSE]

\* ConfFile.EncryptKey: wrap key under the key derived from pw and a fresh salt
EncryptKey(cf, key, pw, salt) ==
    [cf EXCEPT !.exists = TRUE, !.pw = pw, !.salt = salt, !.key = key]

\* cryptfs.LoadConfFile: the authenticated unwrap succeeds only under the
\* key derived from the password the master key was wrapped with
LoadConfFile(c, pw) ==
    IF c.exists /\ ~c.corrupt /\ c.pw = pw
    THEN [err |-> "OK", key |-> c.key]
    ELSE [err |-> "WrongPassword", key |-> ""]

NoLoc == [masterkey |-> <<>>, confFile |-> NoConf, loadFailed |-> FALSE,
          sigHandler |-> FALSE, caller |-> "", password |-> <<>>,
          unmounted |-> FALSE]

Exit(code) ==
    /\ pc' = "exited"
    /\ exitCode' = code

\* The command lines tried: -init or -passwd with one or two positional
\* arguments, one without any, and mounts with every key source, with and
\* without -notifypid
CommandLines ==
    {[op |-> op, nargs |-> nargs, keysrc |-> "config", notifypid |-> 0,
      config |-> config] :
        op \in {"init", "passwd"}, nargs \in {1, 2}, config \in ConfLocs}
    \cup
    {[op |-> "mount", nargs |-> 0, keysrc |-> "config", notifypid |-> 0,
      config |-> "default"]}
    \cup
    {[op |-> "mount", nargs |-> nargs, keysrc |-> keysrc, notifypid |-> notifypid,
      config |-> config] :
        nargs \in {1, 2}, keysrc \in {"config", "masterkey", "zerokey"},
        notifypid \in {0, 1}, config \in ConfLocs}

\* A run of the program starts: flagSet.Parse exits with 2 on a bad command
\* line; without -f the process hands over to forkChild, which does not
\* return; with -f main carries on
MainStart ==
    /\ pc \in {"off", "exited", "forkChild"}
    /\ hist.runs < MaxRuns
    /\ args' \in CommandLines
    /\ \/ pc' = "exited" /\ exitCode' = 2
       \/ pc' = "forkChild" /\ exitCode' = -1
       \/ pc' = "main" /\ exitCode' = -1
    /\ loc' = NoLoc
    /\ events' = <<>>
    /\ hist' = [hist EXCEPT !.runs = hist.runs + 1, !.writesAtStart = hist.writes]
    /\ UNCHANGED <<conf, fsVars>>

\* -version, the CIPHERDIR check
MainCheckArgs ==
    /\ pc = "main"
    /\ \/ Exit(0)
       \/ args.nargs >= 1 /\ Exit(ERREXIT_CIPHERDIR)
       \/ args.nargs < 1 /\ Exit(ERREXIT_USAGE)
       \/ args.nargs >= 1 /\ pc' = "options" /\ UNCHANGED exitCode
    /\ UNCHANGED <<args, conf, loc, events, hist, fsVars>>

\* -q, -config, -cpuprofile (os.Create of the profile may fail), -openssl
MainOptions ==
    /\ pc = "options"
    /\ \/ Exit(ERREXIT_INIT)
       \/ pc' = "dispatch" /\ UNCHANGED exitCode
    /\ UNCHANGED <<args, conf, loc, events, hist, fsVars>>

\* Operation flags: init, passwd or mount, and the MOUNTPOINT checks
MainDispatch ==
    /\ pc = "dispatch"
    /\ \/ /\ args.op = "init"
          /\ IF args.nargs > 1 THEN Exit(ERREXIT_USAGE)
             ELSE pc' = "initDir" /\ UNCHANGED exitCode
       \/ /\ args.op = "passwd"
          /\ IF args.nargs > 1 THEN Exit(ERREXIT_USAGE)
             ELSE pc' = "loadConfig" /\ UNCHANGED exitCode
       \/ /\ args.op = "mount"
          /\ IF args.nargs < 2 THEN Exit(ERREXIT_USAGE)
             ELSE \/ Exit(ERREXIT_MOUNTPOINT)
                  \/ pc' = "getkey" /\ UNCHANGED exitCode
    /\ loc' = [loc EXCEPT !.caller = args.op]
    /\ UNCHANGED <<args, conf, events, hist, fsVars>>

\* initDir: checkDirEmpty(args.cipherdir).  CIPHERDIR is not empty when it
\* holds the config file, and may hold other files
InitDirCheck ==
    /\ pc = "initDir"
    /\ \/ Exit(ERREXIT_INIT)
       \/ /\ ~conf["default"].exists
          /\ pc' = "initDirPassword"
          /\ UNCHANGED exitCode
    /\ UNCHANGED <<args, conf, loc, events, hist, fsVars>>

\* initDir: readPasswordTwice
InitDirPassword ==
    /\ pc = "initDirPassword"
    /\ \/ Exit(ERREXIT_PASSWORD) /\ UNCHANGED loc
       \/ /\ \E pw \in Passwords : loc' = [loc EXCEPT !.password = <<pw>>]
          /\ pc' = "initDirCreate"
          /\ UNCHANGED exitCode
    /\ UNCHANGED <<args, conf, events, hist, fsVars>>

\* initDir: cryptfs.CreateConfFile(args.config, password, ...), which writes
\* a fresh master key to the config path, and os.Exit
InitDirCreate ==
    /\ pc = "initDirCreate"
    /\ \/ Exit(ERREXIT_INIT) /\ UNCHANGED <<conf, hist>>
       \/ /\ \E key \in Keys, salt \in Salts :
                /\ conf' = [conf EXCEPT ![args.config] =
                               EncryptKey(NoConf, key, loc.password[1], salt)]
                /\ hist' = [hist EXCEPT !.mk0[args.config] = <<key>>,
                                        !.latestPw[args.config] = loc.password,
                                        !.writes = hist.writes + 1]
          /\ Exit(0)
    /\ UNCHANGED <<args, loc, events, fsVars>>

\* loadConfig: os.Stat(filename)
LoadConfigStat ==
    /\ pc = "loadConfig"
    /\ IF ~conf[args.config].exists
       THEN Exit(ERREXIT_LOADCONF) /\ loc' = [loc EXCEPT !.loadFailed = TRUE]
       ELSE pc' = "loadConfigRead" /\ UNCHANGED <<exitCode, loc>>
    /\ UNCHANGED <<args, conf, events, hist, fsVars>>

\* loadConfig that carries on after a failed LoadConfFile
LoadConfigDecrypt_noexit ==
    /\ pc = "loadConfigRead"
    /\ \E pw \in Passwords :
          LET l == LoadConfFile(conf[args.config], pw)
          IN  /\ loc' = [loc EXCEPT !.masterkey = <<l.key>>,
                                    !.confFile = conf[args.config],
                                    !.loadFailed = (l.err # "OK")]
              /\ pc' = IF loc.caller = "passwd" THEN "passwd" ELSE "mountfs"
              /\ UNCHANGED exitCode
    /\ UNCHANGED <<args, conf, events, hist, fsVars>>

\* loadConfig: readPassword, cryptfs.LoadConfFile
LoadConfigDecrypt ==
    /\ pc = "loadConfigRead"
    /\ \E pw \in Passwords :
          LET l == LoadConfFile(conf[args.config], pw)
          IN  IF l.err # "OK"
              THEN Exit(ERREXIT_LOADCONF) /\ loc' = [loc EXCEPT !.loadFailed = TRUE]
              ELSE /\ loc' = [loc EXCEPT !.masterkey = <<l.key>>,
                                         !.confFile = conf[args.config]]
                   /\ pc' = IF loc.caller = "passwd" THEN "passwd" ELSE "mountfs"
                   /\ UNCHANGED exitCode
    /\ UNCHANGED <<args, conf, events, hist, fsVars>>

\* changePassword that wraps a fresh key instead of the loaded master key
ChangePasswordEncrypt_newkey ==
    /\ pc = "passwd"
    /\ \/ Exit(ERREXIT_PASSWORD) /\ UNCHANGED loc
       \/ /\ \E newPw \in Passwords, salt \in Salts, k \in Keys :
                loc' = [loc EXCEPT !.confFile = EncryptKey(loc.confFile, k, newPw, salt)]
          /\ pc' = "passwdWrite"
          /\ UNCHANGED exitCode
    /\ UNCHANGED <<args, conf, events, hist, fsVars>>

\* changePassword: readPasswordTwice, confFile.EncryptKey(masterkey, newPw)
ChangePasswordEncrypt ==
    /\ pc = "passwd"
    /\ \/ Exit(ERREXIT_PASSWORD) /\ UNCHANGED loc
       \/ /\ \E newPw \in Passwords, salt \in Salts :
                loc' = [loc EXCEPT !.confFile =
                           EncryptKey(loc.confFile, loc.masterkey[1], newPw, salt)]
          /\ pc' = "passwdWrite"
          /\ UNCHANGED exitCode
    /\ UNCHANGED <<args, conf, events, hist, fsVars>>

\* changePassword: confFile.WriteFile(), atomically, or not at all
ChangePasswordWrite ==
    /\ pc = "passwdWrite"
    /\ \/ Exit(ERREXIT_INIT) /\ UNCHANGED <<conf, hist>>
       \/ /\ conf' = [conf EXCEPT ![args.config] = loc.confFile]
          /\ hist' = [hist EXCEPT !.latestPw[args.config] = <<loc.confFile.pw>>,
                                  !.writes = hist.writes + 1]
          /\ Exit(0)
    /\ UNCHANGED <<args, loc, events, fsVars>>

\* Get master key: -masterkey, -zerokey or the config file
GetMasterKey ==
    /\ pc = "getkey"
    /\ \/ /\ args.keysrc = "masterkey"
          /\ \E k \in Keys : loc' = [loc EXCEPT !.masterkey = <<k>>]
          /\ pc' = "mountfs"
       \/ /\ args.keysrc = "zerokey"
          /\ loc' = [loc EXCEPT !.masterkey = <<ZeroKey>>]
          /\ pc' = "mountfs"
       \/ /\ args.keysrc = "config"
          /\ pc' = "loadConfig"
          /\ UNCHANGED loc
    /\ UNCHANGED <<args, conf, exitCode, events, hist, fsVars>>

\* pathfsFrontend: fuse.NewServer mounts, or the process exits
PathfsFrontend ==
    /\ pc = "mountfs"
    /\ \/ Exit(ERREXIT_MOUNT) /\ UNCHANGED events
       \/ /\ events' = Append(events, "mount")
          /\ pc' = "ready"
          /\ UNCHANGED exitCode
    /\ UNCHANGED <<args, conf, loc, hist, fsVars>>

\* We are ready - send USR1 signal to our parent
SendUsr1 ==
    /\ pc = "ready"
    /\ events' = IF args.notifypid > 0 THEN Append(events, "ready") ELSE events
    /\ pc' = "handleSigint"
    /\ UNCHANGED <<args, conf, loc, exitCode, hist, fsVars>>

\* handleSigint: signal.Notify and the start of the goroutine
HandleSigint ==
    /\ pc = "handleSigint"
    /\ loc' = [loc EXCEPT !.sigHandler = TRUE]
    /\ pc' = "serve"
    /\ UNCHANGED <<args, conf, exitCode, events, hist, fsVars>>

\* srv.Serve(): the server loop starts
Serve ==
    /\ pc = "serve"
    /\ events' = Append(events, "serve")
    /\ pc' = "serving"
    /\ hist' = [hist EXCEPT !.served = IF events = <<"mount", "ready">>
                                         THEN hist.served + 1 ELSE hist.served]
    /\ UNCHANGED <<args, conf, loc, exitCode, fsVars>>

\* Serve returns on an umount request from the kernel, or once the
\* goroutine has unmounted; main exits with 0
ServeReturns ==
    /\ pc = "serving"
    /\ Exit(0)
    /\ UNCHANGED <<args, conf, loc, events, hist, fsVars>>

\* The goroutine of handleSigint: SIGINT or SIGTERM arrives, srv.Unmount()
\* and, when that fails, the lazy unmount
SigintUnmount ==
    /\ pc \in {"serve", "serving"}
    /\ loc.sigHandler /\ ~loc.unmounted
    /\ loc' = [loc EXCEPT !.unmounted = TRUE]
    /\ UNCHANGED <<pc, args, conf, exitCode, events, hist, fsVars>>

\* The goroutine of handleSigint: os.Exit(1), unless main has exited first
SigintExit ==
    /\ pc \in {"serve", "serving"}
    /\ loc.unmounted
    /\ Exit(1)
    /\ UNCHANGED <<args, conf, loc, events, hist, fsVars>>

\* The environment damages a config file on disk
CorruptConf ==
    /\ \E l \in ConfLocs :
          /\ conf[l].exists /\ ~conf[l].corrupt
          /\ conf' = [conf EXCEPT ![l].corrupt = TRUE]
    /\ UNCHANGED <<pc, args, loc, exitCode, events, hist, fsVars>>

InitMain ==
    /\ pc = "off"
    /\ args = [op |-> "init", nargs |-> 1, keysrc |-> "config", notifypid |-> 0,
               config |-> "default"]
    /\ conf = [l \in ConfLocs |-> NoConf]
    /\ loc = NoLoc
    /\ exitCode = -1
    /\ events = <<>>
    /\ hist = [runs |-> 0, mk0 |-> [l \in ConfLocs |-> <<>>],
               latestPw |-> [l \in ConfLocs |-> <<>>], writes |-> 0,
               writesAtStart |-> 0, served |-> 0]
    /\ tree = MkTree(0, FALSE, FALSE, FALSE)
    /\ tree0 = tree
    /\ reqs = [r \in Slots |-> NoReq]

NextMain ==
    \/ MainStart
    \/ MainCheckArgs
    \/ MainOptions
    \/ MainDispatch
    \/ InitDirCheck
    \/ InitDirPassword
    \/ InitDirCreate
    \/ LoadConfigStat
    \/ LoadConfigDecrypt
    \/ ChangePasswordEncrypt
    \/ ChangePasswordWrite
    \/ GetMasterKey
    \/ PathfsFrontend
    \/ SendUsr1
    \/ HandleSigint
    \/ Serve
    \/ ServeReturns
    \/ SigintUnmount
    \/ SigintExit
    \/ CorruptConf

Spec == Init /\ [][Next]_vars
SpecConc == InitConc /\ [][NextConc]_vars
SpecMain == InitMain /\ [][NextMain]_vars


(***************************************************************************)
(* Properties                                                              *)
(***************************************************************************)
IsDone(r, op) == reqs[r].pc = "done" /\ reqs[r].op = op

\* The virtual directory-IV path of a directory
IsDirIVOf(relPath) == Len(relPath) > 0 /\ relPath[Len(relPath)] = DirIVFilename

NamedCount(es, name) == Cardinality({k \in 1..Len(es) : es[k].Name = name})

PermissionDenied == {"EPERM", "EACCES"}

\* C1 as claimed: a successful OpenDir of an underlying directory with n
\* entries returns n+1 entries, in whatever order the host lists them: every
\* underlying entry once, under its encrypted name and with its mode, and
\* exactly one entry named gocryptfs.diriv.
C1_OpenDirListing ==
    \A r \in Slots :
        (/\ IsDone(r, "OpenDir") /\ reqs[r].result.status = "OK"
         /\ reqs[r].target \in DOMAIN reqs[r].seen[1]
         /\ (reqs[r].seen[1][reqs[r].target].Mode \div 4096) % 16 = 4) =>
            LET t == reqs[r].seen[1]
                dir == reqs[r].target
                kids == {n \in PlainNames : Append(dir, n) \in DOMAIN t}
                es == reqs[r].result.entries
            IN  /\ Len(es) = Cardinality(kids) + 1
                /\ NamedCount(es, DirIVFilename) = 1
                /\ \A n \in kids :
                      Cardinality({k \in 1..Len(es) :
                          /\ es[k].Name = EncryptName(n)
                          /\ es[k].Mode = t[Append(dir, n)].Mode}) = 1

\* C2: GetAttr of an ordinary path (not a directory-IV path, not excluded)
\* that translates returns the underlying attributes with the size of a
\* regular file replaced by PlainSizeToCipherSize(size) and every other size
\* unchanged; a failed underlying lookup is returned with no attributes.
C2_GetAttrForwards ==
    \A r \in Slots :
        (/\ IsDone(r, "GetAttr")
         /\ ~IsDirIVPath(reqs[r].path)
         /\ ~isFiltered(reqs[r].path)
         /\ decryptPath(reqs[r].path).err = "OK") =>
            LET p == decryptPath(reqs[r].path).path
                t == reqs[r].seen[1]
                res == reqs[r].result
            IN  IF WalkErr(t, p) = "OK" /\ p \in DOMAIN t
                THEN /\ res.status = "OK"
                     /\ Len(res.attr) = 1
                     /\ res.attr[1].Mode = t[p].Mode
                     /\ res.attr[1].Nlink = t[p].Nlink
                     /\ res.attr[1].Ino = t[p].Ino
                     /\ res.attr[1].Size =
                           IF (t[p].Mode \div 4096) % 16 = 8
                           THEN PlainSizeToCipherSize(t[p].Size)
                           ELSE t[p].Size
                ELSE /\ res.status = IF WalkErr(t, p) # "OK" THEN WalkErr(t, p) ELSE "ENOENT"
                     /\ res.attr = <<>>

\* the attributes of the regular file d/f with a non-empty content were
\* returned
C2_Witness ==
    \E r \in Slots :
        /\ IsDone(r, "GetAttr") /\ reqs[r].path = <<E("d"), E("f")>>
        /\ reqs[r].result.status = "OK"
        /\ reqs[r].seen[1][<<"d", "f">>].Size = 10000
        /\ reqs[r].result.attr[1].Size = PlainSizeToCipherSize(10000)
        /\ reqs[r].result.attr[1].Size > 10000

\* Whether the parent of a directory-IV path exists, is a directory and has
\* the owner's execute bit
ParentUsable(t, relPath) ==
    LET d == decryptPath(PathDir(relPath))
    IN  /\ d.err = "OK"
        /\ WalkErr(t, d.path) = "OK"
        /\ d.path \in DOMAIN t
        /\ (t[d.path].Mode \div 4096) % 16 = 4
        /\ (t[d.path].Mode \div 64) % 2 = 1

\* C3 as claimed: GetAttr of a directory-IV path succeeds exactly when the
\* parent exists, is a directory and is execute-permitted, with mode 0400,
\* size 16 and link count 1, and in every other case fails with
\* PermissionDenied or NotADirectory.
C3_Original ==
    \A r \in Slots :
        (IsDone(r, "GetAttr") /\ IsDirIVOf(reqs[r].path)) =>
            LET res == reqs[r].result
            IN  IF ParentUsable(tree, reqs[r].path)
                THEN /\ res.status = "OK"
                     /\ res.attr[1].Mode = 33024
                     /\ res.attr[1].Size = 16
                     /\ res.attr[1].Nlink = 1
                ELSE /\ res.attr = <<>>
                     /\ res.status \in PermissionDenied \cup {"ENOTDIR"}

\* C3 as amended: success is as claimed; the failure is the translation
\* error when the parent path does not translate, the underlying lookup's
\* own failure (NotFound for a missing parent) when that lookup fails,
\* NotADirectory when the parent is no directory and PermissionDenied when it
\* lacks the owner's execute bit.
C3_DirIVAttr ==
    \A r \in Slots :
        (IsDone(r, "GetAttr") /\ IsDirIVOf(reqs[r].path)) =>
            LET res == reqs[r].result
                d == decryptPath(PathDir(reqs[r].path))
            IN  IF ParentUsable(tree, reqs[r].path)
                THEN /\ res.status = "OK"
                     /\ res.attr = <<[Mode |-> 33024, Size |-> 16, Nlink |-> 1,
                                      Ino |-> tree[d.path].Ino]>>
                ELSE /\ res.attr = <<>>
                     /\ res.status =
                           IF d.err # "OK" THEN d.err
                           ELSE IF WalkErr(tree, d.path) # "OK" THEN WalkErr(tree, d.path)
                           ELSE IF d.path \notin DOMAIN tree THEN "ENOENT"
                           ELSE IF (tree[d.path].Mode \div 4096) % 16 # 4 THEN "ENOTDIR"
                           ELSE "EPERM"

\* the directory-IV attributes of the directory d were returned
C3_Witness ==
    \E r \in Slots :
        /\ IsDone(r, "GetAttr") /\ reqs[r].path = <<E("d"), DirIVFilename>>
        /\ reqs[r].result.status = "OK"
        /\ reqs[r].result.attr[1].Size = 16

\* C4: GetAttr, Open and Access of an excluded path fail with
\* PermissionDenied or NotFound and return neither attributes nor a handle,
\* whether or not the underlying file exists, whatever the flags or mode.
C4_ExcludedHidden ==
    \A r \in Slots :
        (/\ reqs[r].pc = "done"
         /\ reqs[r].op \in {"GetAttr", "Open", "Access"}
         /\ isFiltered(reqs[r].path)) =>
            /\ reqs[r].result.status \in PermissionDenied \cup {"ENOENT"}
            /\ reqs[r].result.attr = <<>>
            /\ reqs[r].result.file = <<>>

\* GetAttr of gocryptfs.conf was refused while the file exists underneath
C4_Witness ==
    \E r \in Slots :
        /\ IsDone(r, "GetAttr") /\ reqs[r].path = <<ConfDefaultName>>
        /\ <<ConfDefaultName>> \in DOMAIN tree
        /\ reqs[r].result.status = "EPERM"

\* C5 as claimed: for every directory whose directory-IV file GetAttr
\* reports, a read-only Open of that file succeeds and returns a handle.
C5_OpenDirIV ==
    \A r \in Slots :
        (/\ IsDone(r, "Open") /\ IsDirIVOf(reqs[r].path)
         /\ reqs[r].arg = O_RDONLY
         /\ ParentUsable(tree, reqs[r].path)) =>
            /\ reqs[r].result.status = "OK"
            /\ Len(reqs[r].result.file) = 1

\* C6 as claimed: Access of a directory-IV path succeeds whenever the parent
\* exists, is a directory and is execute-permitted; Access of any other
\* path that is not excluded is the underlying access result on the path
\* translated as GetAttr and Open translate it (decryptPath).
C6_Access ==
    \A r \in Slots :
        (IsDone(r, "Access") /\ ~isFiltered(reqs[r].path)) =>
            LET d == decryptPath(reqs[r].path)
            IN  IF IsDirIVOf(reqs[r].path)
                THEN ParentUsable(tree, reqs[r].path) => reqs[r].result.status = "OK"
                ELSE reqs[r].result.status =
                        IF d.err # "OK" THEN d.err
                        ELSE SyscallAccess(tree, d.path, reqs[r].arg)

\* C7 as claimed: whatever requests were served, with whatever flags, the
\* underlying plaintext tree is the tree that was mounted.
C7_ReadOnly == tree = tree0

\* What a request can return when it runs alone on tree t
Alone(op, relPath, arg, t) ==
    LET all == CASE op = "GetAttr" -> {GetAttr(t, relPath)}
                 [] op = "Access" -> {Access(t, relPath, arg)}
                 [] op = "Open" -> {o.result : o \in Open(t, relPath, arg)}
                 [] OTHER -> OpenDir(t, relPath)
    IN  {res \in all : res.status # Blocked}

\* C10: while the underlying tree is unchanged, every request that has
\* returned, whatever ran concurrently with it, returned what it returns
\* when run alone.
C10_Independent ==
    (tree = tree0) =>
        \A r \in Slots :
            reqs[r].pc = "done" =>
                reqs[r].result \in Alone(reqs[r].op, reqs[r].path, reqs[r].arg, tree0)

\* two listings of the same directory overlapped and one of them failed in
\* the middle: it had encrypted its first entry when the encryption of a
\* later name failed, while the other, which had read the directory too,
\* is in its loop past its first entry
C10_Witness ==
    /\ tree = tree0
    /\ \E r, q \in Slots :
          /\ r # q
          /\ IsDone(r, "OpenDir") /\ reqs[r].result.status = "IOError"
          /\ reqs[r].i >= 2
          /\ reqs[q].op = "OpenDir" /\ reqs[q].pc = "listed" /\ reqs[q].i = 2
          /\ reqs[q].path = reqs[r].path

\* C8: whenever a config file exists and is undamaged, loading it with the
\* latest password set on it yields the master key its creation wrote; a
\* password change whose load fails has exited with the load-config code
\* without writing; and a password change that wrote held the creation key.
C8_PasswordChange ==
    /\ \A l \in ConfLocs :
          (conf[l].exists /\ ~conf[l].corrupt) =>
              /\ Len(hist.latestPw[l]) = 1 /\ Len(hist.mk0[l]) = 1
              /\ LoadConfFile(conf[l], hist.latestPw[l][1])
                    = [err |-> "OK", key |-> hist.mk0[l][1]]
    /\ (args.op = "passwd" /\ loc.loadFailed) =>
          /\ pc = "exited" /\ exitCode = 8
          /\ hist.writes = hist.writesAtStart
    /\ (args.op = "passwd" /\ hist.writes > hist.writesAtStart) =>
          /\ Len(loc.masterkey) = 1 /\ loc.masterkey = hist.mk0[args.config]

\* the config file in CIPHERDIR was created and its password changed (two
\* writes, none of them to another config file), and a later change with a
\* wrong old password was refused
C8_Witness ==
    /\ args.op = "passwd" /\ loc.loadFailed
    /\ args.config = "default"
    /\ hist.writes = 2 /\ hist.mk0["custom"] = <<>>
    /\ conf[args.config].exists /\ ~conf[args.config].corrupt

MountOrders ==
    {<<>>, <<"mount">>, <<"mount", "ready">>, <<"mount", "serve">>,
     <<"mount", "ready", "serve">>}

\* C9: a run whose load of the config file failed has exited with the
\* load-config code with no server created, no ready signal and no serve
\* loop; the milestones of a run come in the order mount, ready, serve and
\* only with a master key in hand, which for the config file is the key the
\* file wraps; the serve loop starts after the ready signal when one is due.
C9_MountOrder ==
    /\ loc.loadFailed => (pc = "exited" /\ exitCode = 8 /\ events = <<>>)
    /\ events \in MountOrders
    /\ events # <<>> =>
          /\ args.op = "mount"
          /\ Len(loc.masterkey) = 1
          /\ args.keysrc = "config" => loc.masterkey = hist.mk0[args.config]
    /\ (\E k \in 1..Len(events) : events[k] = "ready") <=>
          (args.notifypid > 0 /\ Len(events) >= 2)
    /\ (pc = "exited" /\ exitCode \in {2, 3, 7, 8}) => events = <<>>

\* a mount from the config file went through mount, ready and serve, and a
\* later mount was given a wrong password
C9_Witness ==
    /\ args.op = "mount" /\ args.keysrc = "config"
    /\ loc.loadFailed /\ conf[args.config].exists /\ ~conf[args.config].corrupt
    /\ hist.served = 1

====
